---- MODULE Spec2Model ----
(***************************************************************************)
(* Model of src/App.js: the PiiRedactionApp React component.               *)
(*                                                                         *)
(* The component holds four pieces of state (pdf, redactedPdf, usedOcr,    *)
(* isLoading), two handlers (handleUpload, handleRedact) and a render      *)
(* function.  handleRedact suspends at `await axios.post(...)`; the code   *)
(* after the await (try body / catch / finally) runs to completion in one  *)
(* event-loop turn and is modelled by the action Settle.                   *)
(*                                                                         *)
(* JavaScript values are modelled as tagged records so that truthiness and *)
(* string conversion are computed the way the language computes them.      *)
(***************************************************************************)
EXTENDS Integers, Sequences, FiniteSets

(* ------------------------------ bounds --------------------------------- *)

\* Number of redact requests dispatched in one behaviour.
MaxRequests == 3

(* --------------------------- JavaScript values ------------------------- *)

Null      == [tag |-> "null",      b |-> FALSE, s |-> ""]
Undefined == [tag |-> "undefined", b |-> FALSE, s |-> ""]
Bool(x)   == [tag |-> "boolean",   b |-> x,     s |-> ""]
Str(x)    == [tag |-> "string",    b |-> FALSE, s |-> x]
FileV(n)  == [tag |-> "file",      b |-> FALSE, s |-> n]

\* JavaScript ToBoolean, as used by `!pdf`, `a && b` and `{x && (...)}`.
Truthy(v) ==
    CASE v.tag = "boolean" -> v.b
      [] v.tag = "string"  -> v.s # ""
      [] v.tag = "file"    -> TRUE
      [] OTHER             -> FALSE

\* JavaScript ToString, as applied by a template literal `${v}`.
JsToString(v) ==
    CASE v.tag = "string"    -> v.s
      [] v.tag = "boolean"   -> IF v.b THEN "true" ELSE "false"
      [] v.tag = "null"      -> "null"
      [] v.tag = "undefined" -> "undefined"
      [] OTHER               -> "[object File]"

(* ------------------------------ inputs --------------------------------- *)

\* event.target.files[0]: a File, or undefined when the picker is cancelled.
Picks == {FileV("report.pdf"), FileV("scan.pdf"), Undefined}

\* response.data.filename / response.data.used_ocr as delivered by the server.
Filenames == {Undefined, Str(""), Str("report_redacted.pdf"), Str("scan_redacted.pdf")}
OcrValues == {Undefined, Bool(TRUE), Bool(FALSE)}
Statuses  == {200, 201, 500}

\* What the network produces for one request: a transport failure, or an
\* HTTP response whose parsed body is null or an object.
NetworkError == [kind |-> "error", status |-> 0, bodyNull |-> TRUE,
                 filename |-> Undefined, used_ocr |-> Undefined]
HttpResponse(st, bn, fn, ocr) ==
    [kind |-> "http", status |-> st, bodyNull |-> bn,
     filename |-> fn, used_ocr |-> ocr]
Outcomes ==
    {NetworkError}
    \cup {HttpResponse(st, TRUE, Undefined, Undefined) : st \in Statuses}
    \cup {HttpResponse(st, FALSE, fn, ocr) :
              st \in Statuses, fn \in Filenames, ocr \in OcrValues}
NoOutcome == [kind |-> "none", status |-> 0, bodyNull |-> TRUE,
              filename |-> Undefined, used_ocr |-> Undefined]

(* ----------------------------- literals -------------------------------- *)

AlertNoFile    == "Please upload a PDF first."
AlertMalformed == "Something went wrong. Please try again."
AlertFailed    == "Failed to process the PDF."
NoAlert        == ""
OutputBase     == "http://127.0.0.1:8000/output/"
LabelBusy      == "Processing..."
LabelIdle      == "Redact PDF"

(* ------------------------------- state --------------------------------- *)

VARIABLES
    pdf,          \* useState(null): the selected file
    redactedPdf,  \* useState(null): the download URL
    usedOcr,      \* useState(false)
    isLoading,    \* useState(false)
    requests,     \* POSTs dispatched by axios.post and not yet settled
    nextId,       \* number of POSTs dispatched so far
    alert,        \* text passed to alert() by the last operation, or NoAlert
    lastOp,       \* history: the operation that produced this state
    lastOutcome,  \* history: the outcome consumed by the last Settle
    lastReq,      \* history: the request dispatched or settled by the last step
    lastPick,     \* history: the file handed to the last handleUpload
    prev,         \* history: the four state fields before the last operation
    prevSent,     \* history: nextId before the last operation
    submitted,    \* history: submitted[i] is the file selected when POST i was issued
    lastSuccess   \* history: the most recently settled successful response

vars == <<pdf, redactedPdf, usedOcr, isLoading, requests, nextId, alert,
          lastOp, lastOutcome, lastReq, lastPick, prev, prevSent, submitted,
          lastSuccess>>

UiState == [pdf |-> pdf, redactedPdf |-> redactedPdf,
            usedOcr |-> usedOcr, isLoading |-> isLoading]

NoReq == [id |-> 0, file |-> Null]

Init ==
    /\ pdf = Null
    /\ redactedPdf = Null
    /\ usedOcr = Bool(FALSE)
    /\ isLoading = FALSE
    /\ requests = {}
    /\ nextId = 0
    /\ alert = NoAlert
    /\ lastOp = "init"
    /\ lastOutcome = NoOutcome
    /\ lastReq = NoReq
    /\ lastPick = Null
    /\ prev = UiState
    /\ prevSent = 0
    /\ submitted = <<>>
    /\ lastSuccess = NoOutcome

(* ------------------------------ render --------------------------------- *)

\* Faulty variant: the button without its disabled prop.
ButtonDisabledNever == FALSE

\* <Button disabled={isLoading}>: a disabled button delivers no click.
ButtonDisabled == isLoading

\* {isLoading ? "Processing..." : "Redact PDF"}
ButtonLabel == IF isLoading THEN LabelBusy ELSE LabelIdle

\* {redactedPdf && (<Box> ... href={redactedPdf} ... </Box>)}
DownloadLinkRendered == Truthy(redactedPdf)

\* {usedOcr && (...)}, nested inside the redactedPdf block.
OcrNoticeRendered == Truthy(redactedPdf) /\ Truthy(usedOcr)

(* --------------------------- handleUpload ------------------------------ *)

\* Faulty variant: picking a file also discards the previous result.
HandleUploadClearsResult(f) ==
    /\ pdf' = f
    /\ redactedPdf' = Null
    /\ usedOcr' = Bool(FALSE)
    /\ alert' = NoAlert
    /\ lastOp' = "upload"
    /\ lastPick' = f
    /\ prev' = UiState
    /\ prevSent' = nextId
    /\ UNCHANGED <<isLoading, requests, nextId,
                   lastOutcome, lastReq, submitted, lastSuccess>>

\* Faulty variant: the outstanding request reads the selected file when it is sent,
\* so picking a file re-targets it.
HandleUploadRebindsPayload(f) ==
    /\ pdf' = f
    /\ requests' = {[r EXCEPT !.file = f] : r \in requests}
    /\ alert' = NoAlert
    /\ lastOp' = "upload"
    /\ lastPick' = f
    /\ prev' = UiState
    /\ prevSent' = nextId
    /\ UNCHANGED <<redactedPdf, usedOcr, isLoading, nextId,
                   lastOutcome, lastReq, submitted, lastSuccess>>

\* setPdf(event.target.files[0])
HandleUpload(f) ==
    /\ pdf' = f
    /\ alert' = NoAlert
    /\ lastOp' = "upload"
    /\ lastPick' = f
    /\ prev' = UiState
    /\ prevSent' = nextId
    /\ UNCHANGED <<redactedPdf, usedOcr, isLoading, requests, nextId,
                   lastOutcome, lastReq, submitted, lastSuccess>>

(* --------------------------- handleRedact ------------------------------ *)

\* Faulty variant: a strict null test, which lets `undefined` through.
NoFileSelectedStrictNull == pdf = Null

\* if (!pdf)
NoFileSelected == ~Truthy(pdf)

\* formData.append("file", pdf): the payload holds the File itself.
FormData(file) == [id |-> nextId + 1, file |-> file]

\* if (!pdf) { alert(...); return; }
HandleRedactNoFile ==
    /\ NoFileSelected
    /\ alert' = AlertNoFile
    /\ lastOp' = "redact-nofile"
    /\ prev' = UiState
    /\ prevSent' = nextId
    /\ lastReq' = NoReq
    /\ UNCHANGED <<pdf, redactedPdf, usedOcr, isLoading, requests, nextId,
                   lastOutcome, lastPick, submitted, lastSuccess>>

\* formData built, setIsLoading(true), axios.post dispatched; suspends at await.
HandleRedactDispatch ==
    /\ ~NoFileSelected
    /\ nextId < MaxRequests
    /\ isLoading' = TRUE
    /\ requests' = requests \cup {FormData(pdf)}
    /\ lastReq' = FormData(pdf)
    /\ nextId' = nextId + 1
    /\ alert' = NoAlert
    /\ lastOp' = "redact-dispatch"
    /\ prev' = UiState
    /\ prevSent' = nextId
    /\ submitted' = Append(submitted, pdf)
    /\ UNCHANGED <<pdf, redactedPdf, usedOcr, lastOutcome, lastPick, lastSuccess>>

\* onClick={handleRedact} on a button that is disabled while isLoading.
ClickRedact ==
    /\ ~ButtonDisabled
    /\ \/ HandleRedactNoFile
       \/ HandleRedactDispatch

(* ------------------- handleRedact after the await ---------------------- *)

\* axios.post is called without a validateStatus option, so the promise
\* resolves for 2xx statuses and rejects for every other status.
validateStatus(status) == status >= 200 /\ status < 300

\* Whether `await axios.post(...)` returns a response (rather than throwing).
Resolves(o) == o.kind = "http" /\ validateStatus(o.status)

\* response.status === 200 && response.data.filename  (&& short-circuits, so
\* response.data.filename is read only when the status is 200).
ReadsFilename(o) == o.status = 200
\* Faulty variant: the status test dropped from the condition.
ResponseOkIgnoresStatus(o) == Truthy(o.filename)

ResponseOk(o) == o.status = 200 /\ Truthy(o.filename)

\* Which block of the try statement handles the outcome: reading a property
\* of a null body throws a TypeError inside the try.
Branch(o) ==
    IF ~Resolves(o) THEN "catch"
    ELSE IF ReadsFilename(o) /\ o.bodyNull THEN "catch"
    ELSE IF ResponseOk(o) THEN "then"
    ELSE "else"

\* Faulty variant: the link built on the endpoint the file was posted to.
DownloadUrlWrongBase(filename) ==
    Str("http://127.0.0.1:8000/redact-pdf/" \o JsToString(filename))

\* `http://127.0.0.1:8000/output/${response.data.filename}`
DownloadUrl(filename) == Str(OutputBase \o JsToString(filename))

\* Faulty variant: a failed request discards the previous result.
UrlAfterClearsOnError(o) ==
    CASE Branch(o) = "then"  -> DownloadUrl(o.filename)
      [] Branch(o) = "catch" -> Null
      [] OTHER               -> redactedPdf

\* setRedactedPdf(...) in the success branch; untouched in the others.
UrlAfter(o) ==
    IF Branch(o) = "then" THEN DownloadUrl(o.filename) ELSE redactedPdf

\* Faulty variant: the flag is or-ed into the stored one instead of replacing it.
OcrAfterSticky(o) ==
    IF Branch(o) = "then"
    THEN (IF Truthy(usedOcr) THEN usedOcr ELSE o.used_ocr)
    ELSE usedOcr

\* setUsedOcr(response.data.used_ocr) in the success branch.
OcrAfter(o) ==
    IF Branch(o) = "then" THEN o.used_ocr ELSE usedOcr

\* alert(...) in the else branch and in the catch block.
AlertAfter(o) ==
    CASE Branch(o) = "then"  -> NoAlert
      [] Branch(o) = "else"  -> AlertMalformed
      [] Branch(o) = "catch" -> AlertFailed

\* Faulty variant: setIsLoading(false) as the last statement of the try block.
LoadingAfterNoFinally(o) ==
    IF Branch(o) = "catch" THEN isLoading ELSE FALSE

\* Faulty variant: setIsLoading(false) inside the success branch only.
LoadingAfterSuccessOnly(o) ==
    IF Branch(o) = "then" THEN FALSE ELSE isLoading

\* finally { setIsLoading(false); }
LoadingAfter(o) == FALSE

\* A response the specification counts as successful (history only).
IsSuccess(o) ==
    /\ o.kind = "http"
    /\ o.status = 200
    /\ ~o.bodyNull
    /\ o.filename.tag = "string"
    /\ o.filename.s # ""

\* The continuation of handleRedact for request r settling with outcome o.
Settle(r, o) ==
    /\ r \in requests
    /\ requests' = requests \ {r}
    /\ redactedPdf' = UrlAfter(o)
    /\ usedOcr' = OcrAfter(o)
    /\ alert' = AlertAfter(o)
    /\ isLoading' = LoadingAfter(o)
    /\ lastOp' = "settle"
    /\ lastOutcome' = o
    /\ lastReq' = r
    /\ prev' = UiState
    /\ prevSent' = nextId
    /\ lastSuccess' = IF IsSuccess(o) THEN o ELSE lastSuccess
    /\ UNCHANGED <<pdf, nextId, lastPick, submitted>>

(* --------------------------- specification ----------------------------- *)

Next ==
    \/ \E f \in Picks : HandleUpload(f)
    \/ ClickRedact
    \/ \E r \in requests : \E o \in Outcomes : Settle(r, o)

Spec == Init /\ [][Next]_vars

\* Shape of the state.
TypeOK ==
    /\ pdf \in Picks \cup {Null}
    /\ isLoading \in BOOLEAN
    /\ nextId \in 0..MaxRequests
    /\ Cardinality(requests) <= MaxRequests
    /\ Len(submitted) = nextId

(* ------------------------------ properties ----------------------------- *)

\* What the claims call a rejected request: a transport failure, or a status
\* the HTTP client turns into a rejection.
Rejected(o) == o.kind = "error" \/ (o.kind = "http" /\ o.status \notin 200..299)

\* A response without a usable filename: missing, empty, or status not 200.
LacksUsableFilename(o) == o.kind = "http" /\ ~IsSuccess(o)

FrameOfResult ==
    /\ pdf = prev.pdf
    /\ redactedPdf = prev.redactedPdf
    /\ usedOcr = prev.usedOcr

\* C1: isLoading is true exactly when a request dispatched by handleRedact
\* has not yet settled, and false at all other times.
C1_LoadingIffOutstanding == isLoading <=> (requests # {})

C1_Witness ==
    /\ isLoading
    /\ requests # {}
    /\ nextId >= 2
    /\ lastSuccess # NoOutcome

\* C2: a step that settles a request (success, malformed response or rejected
\* request) ends with isLoading false and the action control back to idle.
C2_SettledClearsLoading ==
    lastOp = "settle" =>
        /\ isLoading = FALSE
        /\ ~ButtonDisabled
        /\ ButtonLabel = LabelIdle

C2_Witness ==
    /\ lastOp = "settle"
    /\ lastOutcome.kind = "http"
    /\ lastOutcome.status = 200
    /\ lastOutcome.filename = Undefined
    /\ prev.isLoading
    /\ ~isLoading

\* C3: submit with no file selected issues no request, shows "Please upload a
\* PDF first." and leaves the four state fields unchanged (isLoading stays
\* false); a request is only ever issued with a file selected.
C3_NoFileSubmit ==
    /\ lastOp = "redact-nofile" =>
           /\ ~Truthy(prev.pdf)
           /\ alert = AlertNoFile
           /\ UiState = prev
           /\ ~isLoading
           /\ nextId = prevSent
           /\ requests = {}
    /\ lastOp = "redact-dispatch" => Truthy(prev.pdf)

C3_Witness ==
    /\ lastOp = "redact-nofile"
    /\ pdf = Undefined
    /\ Truthy(redactedPdf)
    /\ alert = AlertNoFile

\* C4 as stated: every response lacking a usable filename (missing, empty, or
\* status other than 200) leaves the URL alone and shows the generic notice.
C4_Original ==
    (lastOp = "settle" /\ LacksUsableFilename(lastOutcome)) =>
        /\ redactedPdf = prev.redactedPdf
        /\ alert = AlertMalformed

\* C4 amended: a response lacking a usable filename never changes the URL; it
\* shows the generic notice when the status is 2xx (and the body, if the
\* status is 200, is not null), and "Failed to process the PDF." when the
\* status is not 2xx or a status-200 body is null.
C4_MalformedResponse ==
    (lastOp = "settle" /\ LacksUsableFilename(lastOutcome)) =>
        /\ redactedPdf = prev.redactedPdf
        /\ alert = IF /\ lastOutcome.status \in 200..299
                      /\ ~(lastOutcome.status = 200 /\ lastOutcome.bodyNull)
                   THEN AlertMalformed
                   ELSE AlertFailed

C4_Witness ==
    /\ lastOp = "settle"
    /\ lastOutcome.kind = "http"
    /\ lastOutcome.status = 201
    /\ Truthy(lastOutcome.filename)
    /\ alert = AlertMalformed
    /\ redactedPdf = Null

\* C5: a rejected request shows "Failed to process the PDF." and leaves the
\* selected file, the URL and the OCR flag as they were, also when they come
\* from an earlier success; a status-200 response without a usable filename
\* leaves the same three fields as they were.
C5_FailureFrame ==
    lastOp = "settle" =>
        /\ Rejected(lastOutcome) => (alert = AlertFailed /\ FrameOfResult)
        /\ (LacksUsableFilename(lastOutcome) /\ lastOutcome.status = 200)
               => FrameOfResult

C5_Witness ==
    /\ lastOp = "settle"
    /\ lastOutcome.kind = "error"
    /\ alert = AlertFailed
    /\ Truthy(redactedPdf)
    /\ usedOcr = Bool(TRUE)

\* C6: a non-null URL is the static base followed by the filename of the most
\* recently settled successful response; select-file, submit without a file,
\* dispatch and unsuccessful settlements never change the URL.
C6_UrlFromLastSuccess ==
    /\ redactedPdf # Null =>
           /\ lastSuccess # NoOutcome
           /\ redactedPdf.tag = "string"
           /\ redactedPdf.s = OutputBase \o lastSuccess.filename.s
    /\ (lastOp # "settle" \/ ~IsSuccess(lastOutcome)) =>
           redactedPdf = prev.redactedPdf

C6_Witness ==
    /\ lastOp = "settle"
    /\ IsSuccess(lastOutcome)
    /\ Truthy(prev.redactedPdf)
    /\ redactedPdf # prev.redactedPdf
    /\ redactedPdf = Str("http://127.0.0.1:8000/output/scan_redacted.pdf")

\* C7: after a successful response the OCR notice is rendered iff used_ocr in
\* that response is true, whatever an earlier success stored.
C7_OcrNotice ==
    (lastOp = "settle" /\ IsSuccess(lastOutcome)) =>
        (OcrNoticeRendered <=> lastOutcome.used_ocr = Bool(TRUE))

C7_Witness ==
    /\ lastOp = "settle"
    /\ IsSuccess(lastOutcome)
    /\ lastOutcome.used_ocr = Undefined
    /\ Truthy(prev.usedOcr)
    /\ Truthy(prev.redactedPdf)
    /\ ~OcrNoticeRendered

\* C8: select-file stores the picked file and leaves the URL, the OCR flag and
\* isLoading unchanged, issues no request and shows no notice.
C8_UploadFrame ==
    lastOp = "upload" =>
        /\ pdf = lastPick
        /\ redactedPdf = prev.redactedPdf
        /\ usedOcr = prev.usedOcr
        /\ isLoading = prev.isLoading
        /\ nextId = prevSent
        /\ alert = NoAlert

C8_Witness ==
    /\ lastOp = "upload"
    /\ isLoading
    /\ Truthy(redactedPdf)
    /\ pdf # prev.pdf

\* C9: the action control is disabled and labelled "Processing..." while a
\* request is outstanding, and at most one request is outstanding.
C9_SingleOutstanding ==
    /\ Cardinality(requests) <= 1
    /\ requests # {} => (ButtonDisabled /\ ButtonLabel = LabelBusy)
    /\ lastOp = "redact-dispatch" => (~prev.isLoading /\ requests = {lastReq})

C9_Witness ==
    /\ lastOp = "redact-dispatch"
    /\ nextId = 2
    /\ Cardinality(requests) = 1
    /\ ButtonLabel = LabelBusy

\* C10: a request carries the file that was selected when submit was invoked,
\* also after another file is picked while it is in flight; the stored URL and
\* OCR flag always come together from one response.
C10_PayloadAndPairing ==
    /\ \A r \in requests :
           /\ r.id \in 1..Len(submitted)
           /\ r.file = submitted[r.id]
    /\ lastOp = "settle" => lastReq.file = submitted[lastReq.id]
    /\ redactedPdf # Null =>
           /\ redactedPdf = Str(OutputBase \o lastSuccess.filename.s)
           /\ usedOcr = lastSuccess.used_ocr

C10_Witness ==
    /\ lastOp = "settle"
    /\ IsSuccess(lastOutcome)
    /\ Truthy(pdf)
    /\ lastReq.file # pdf
    /\ lastPick = pdf
    /\ usedOcr = lastOutcome.used_ocr

====
